---- MODULE Spec2Model ----
(***************************************************************************)
(* Model of the tree-consistency layer of yrs_tree: the Node / NodeApi     *)
(* handle surface of src/node.rs on top of the Tree primitives             *)
(* (update_node, delete_node, get_parent, get_children).                   *)
(*                                                                         *)
(* Node identities are small integers; Root is the distinguished identity. *)
(* The tree is the pair (parentOf, children): the child -> parent mapping  *)
(* and the ordered child sequence of every node.  Indexes are 0-based, as  *)
(* in the source; TLA+ sequences are 1-based, so position i of the source  *)
(* is element i + 1 of the sequence.                                       *)
(***************************************************************************)
EXTENDS Integers, Sequences, FiniteSets, TLC

\* Number of distinct user identities available to callers.
MaxIds == 3

\* NodeId::Root
Root == 0

\* Option::None (absent parent, or no index given)
None == 0 - 1

Ids == 1..MaxIds
Nodes == {Root} \cup Ids

\* Strings a caller may pass as an identifier: RootLiteral stands for the
\* reserved string "<ROOT>", every other value for the string naming that Id.
RootLiteral == 0
IdStrings == {RootLiteral} \cup Ids

\* Indexes a caller may pass (MaxIds always exceeds some sequence length).
Indexes == 0..MaxIds
OptIndexes == {None} \cup Indexes

Strategies == {"Promote", "Cascade"}

VARIABLES
    parentOf,   \* child -> parent mapping; None for Root and for absent nodes
    children,   \* node -> ordered sequence of child identities
    handles,    \* identities for which a Node handle has been handed out
    last,       \* the last call: operation, arguments and result
    pParent,    \* parentOf as it was before the last call
    pChildren,  \* children as it was before the last call
    rt,         \* bookkeeping of a move_before(b, e); move_after(b, e) pair
    mr          \* a move_before / move_after of a second caller, in progress

vars == <<parentOf, children, handles, last, pParent, pChildren, rt, mr>>

----------------------------------------------------------------------------
\* NodeId

\* impl From<&str> for NodeId
NodeIdFrom(s) == IF s = RootLiteral THEN Root ELSE s

\* impl Display for NodeId
NodeIdToString(id) == IF id = Root THEN RootLiteral ELSE id

----------------------------------------------------------------------------
\* Sequence helpers (the ordered-list primitive)

Remove(s, x) == SelectSeq(s, LAMBDA y : y # x)

\* insert x so that it ends at 0-based position i
InsertAt(s, i, x) == SubSeq(s, 1, i) \o <<x>> \o SubSeq(s, i + 1, Len(s))

Elems(s) == {s[i] : i \in 1..Len(s)}

Count(s, x) == Cardinality({i \in 1..Len(s) : s[i] = x})

\* Iterator::position: 0-based index of the first match, None if no match
Position(s, x) ==
    IF x \in Elems(s)
    THEN (CHOOSE i \in 1..Len(s) : s[i] = x /\ \A j \in 1..(i - 1) : s[j] # x) - 1
    ELSE None

----------------------------------------------------------------------------
\* Tree lookups

\* Tree::get_parent
get_parent(P, id) == IF id = Root THEN None ELSE P[id]

\* Tree::get_children
get_children(Ch, id) == Ch[id]

\* a node is present when it is Root or has a parent entry
InTree(P, id) == id = Root \/ P[id] # None

\* the chain new_parent, parent(new_parent), ... up to and including Root;
\* fuel bounds the walk so that it ends on any mapping
RECURSIVE WalkUp(_, _, _)
WalkUp(P, id, fuel) ==
    IF id = None \/ fuel = 0 THEN {}
    ELSE {id} \cup WalkUp(P, get_parent(P, id), fuel - 1)

\* proper ancestors of id
AncestorSet(P, id) == WalkUp(P, get_parent(P, id), MaxIds + 1)

\* proper descendants of id
DescendantSet(P, id) == {x \in Ids : id \in AncestorSet(P, x)}

----------------------------------------------------------------------------
\* Tree: structural mutation engine.  Every operation maps a tree (P, Ch)
\* to a record [res, P, Ch]; on any result other than "Ok" the tree is the
\* one passed in.

Outcome(r, P, Ch) == [res |-> r, P |-> P, Ch |-> Ch]

\* the mutation of update_node: id is removed from the sequence that holds it
\* (a no-op if none does) and inserted into new_parent's at index, or at the
\* end, and its parent entry is set
relink(P, Ch, id, new_parent, index) ==
    LET removed == [n \in Nodes |-> Remove(Ch[n], id)]
        at      == IF index = None THEN Len(removed[new_parent]) ELSE index
    IN  Outcome("Ok",
                [P EXCEPT ![id] = new_parent],
                [removed EXCEPT ![new_parent] = InsertAt(removed[new_parent], at, id)])

\* Tree::update_node(id, new_parent, index): the re-parenting primitive of
\* creation and of every move.  All checks come before the mutation: the
\* destination exists, id is not met on the walk from new_parent up to Root,
\* and the index does not exceed the length of the sequence the node is
\* inserted into (the destination's children without id).
update_node(P, Ch, id, new_parent, index) ==
    IF ~InTree(P, new_parent) THEN Outcome("NotFound", P, Ch)
    ELSE IF id \in WalkUp(P, new_parent, MaxIds + 1) THEN Outcome("Cycle", P, Ch)
    ELSE IF index # None /\ index > Len(Remove(Ch[new_parent], id))
         THEN Outcome("IndexOutOfRange", P, Ch)
    ELSE relink(P, Ch, id, new_parent, index)

\* Tree::delete_node(id, strategy)
delete_node(P, Ch, id, strategy) ==
    IF id = Root THEN Outcome("InvalidTarget", P, Ch)
    ELSE IF ~InTree(P, id) THEN Outcome("NotFound", P, Ch)
    ELSE IF strategy = "Promote" THEN
        LET par == P[id]
            kids == Elems(Ch[id])
        IN  Outcome("Ok",
                    [n \in Ids |-> IF n = id THEN None
                                   ELSE IF n \in kids THEN par ELSE P[n]],
                    [Ch EXCEPT ![par] = Remove(Ch[par] \o Ch[id], id),
                               ![id] = <<>>])
    ELSE
        LET par  == P[id]
            gone == {id} \cup DescendantSet(P, id)
        IN  Outcome("Ok",
                    [n \in Ids |-> IF n \in gone THEN None ELSE P[n]],
                    [n \in Nodes |-> IF n \in gone THEN <<>>
                                     ELSE IF n = par THEN Remove(Ch[n], id)
                                     ELSE Ch[n]])

----------------------------------------------------------------------------
\* Node / NodeApi: the handle surface of src/node.rs.  self and other are the
\* identities held by the handles.

\* NodeApi for Node::parent
parent(P, self) == get_parent(P, self)

\* NodeApi for Node::children
children_of(Ch, self) == get_children(Ch, self)

\* NodeApi for Node::siblings
siblings(P, Ch, self) ==
    IF parent(P, self) # None THEN children_of(Ch, parent(P, self)) ELSE <<>>

\* do_create_child without the test for the reserved identifier
do_create_child_any_id(P, Ch, self, idstr, index) ==
    update_node(P, Ch, NodeIdFrom(idstr), self, index)

\* Node::do_create_child
do_create_child(P, Ch, self, idstr, index) ==
    LET id == NodeIdFrom(idstr)
    IN  IF id = Root THEN Outcome("InvalidId", P, Ch)
        ELSE update_node(P, Ch, id, self, index)

\* move_relative without the test for a node moved relative to itself
move_relative_no_self_test(P, Ch, self, other, offset) ==
    IF other = Root THEN Outcome("InvalidTarget", P, Ch)
    ELSE IF parent(P, other) = None THEN Outcome("Panic", P, Ch)
    ELSE update_node(P, Ch, self, parent(P, other),
                     Position(siblings(P, Ch, other), other) + offset)

\* move_relative with the two handles exchanged in the update
move_relative_moves_other(P, Ch, self, other, offset) ==
    IF other = self THEN Outcome("Cycle", P, Ch)
    ELSE IF other = Root THEN Outcome("InvalidTarget", P, Ch)
    ELSE IF parent(P, self) = None \/ parent(P, other) = None THEN Outcome("Panic", P, Ch)
    ELSE update_node(P, Ch, other, parent(P, self),
                     Position(siblings(P, Ch, self), self) + offset)

\* Node::move_relative; "Panic" is an unwrap() on None
move_relative(P, Ch, self, other, offset) ==
    IF other = self THEN Outcome("Cycle", P, Ch)
    ELSE IF other = Root THEN Outcome("InvalidTarget", P, Ch)
    ELSE IF parent(P, other) = None THEN Outcome("Panic", P, Ch)
    ELSE
        LET new_parent == parent(P, other)
            cur_idx    == Position(siblings(P, Ch, other), other)
        IN  IF cur_idx = None THEN Outcome("Panic", P, Ch)
            ELSE update_node(P, Ch, self, new_parent, cur_idx + offset)

\* move_to that leaves the child -> parent mapping as it was
move_to_stale_parent(P, Ch, self, new_parent, index) ==
    [update_node(P, Ch, self, new_parent, index) EXCEPT !.P = P]

\* move_to that skips the walk from the destination up to Root
move_to_unchecked(P, Ch, self, new_parent, index) ==
    IF self = Root \/ ~InTree(P, new_parent) THEN Outcome("NotFound", P, Ch)
    ELSE IF index # None /\ index > Len(Remove(Ch[new_parent], self))
         THEN Outcome("IndexOutOfRange", P, Ch)
    ELSE relink(P, Ch, self, new_parent, index)

\* move_to with the moved node and the destination exchanged
move_to_swapped(P, Ch, self, new_parent, index) ==
    update_node(P, Ch, new_parent, self, index)

\* move_to that drops the index and always appends
move_to_appends(P, Ch, self, new_parent, index) ==
    update_node(P, Ch, self, new_parent, None)

\* move_to that takes the node out of its sequence before the call is checked
move_to_removes_first(P, Ch, self, new_parent, index) ==
    LET r == update_node(P, Ch, self, new_parent, index)
    IN  IF r.res = "Ok" THEN r
        ELSE [r EXCEPT !.Ch = [n \in Nodes |-> Remove(Ch[n], self)]]

\* move_to that refuses the index one past the last position
move_to_strict_index(P, Ch, self, new_parent, index) ==
    IF index # None /\ InTree(P, new_parent) /\ index >= Len(Remove(Ch[new_parent], self))
    THEN Outcome("IndexOutOfRange", P, Ch)
    ELSE update_node(P, Ch, self, new_parent, index)

\* NodeApi for Node::move_to
move_to(P, Ch, self, new_parent, index) == update_node(P, Ch, self, new_parent, index)

\* NodeApi for Node::move_before
move_before(P, Ch, self, other) == move_relative(P, Ch, self, other, 0)

\* NodeApi for Node::move_after
move_after(P, Ch, self, other) == move_relative(P, Ch, self, other, 1)

\* delete that cascades whatever the strategy
delete_always_cascade(P, Ch, self, strategy) == delete_node(P, Ch, self, "Cascade")

\* delete that promotes whatever the strategy
delete_always_promote(P, Ch, self, strategy) == delete_node(P, Ch, self, "Promote")

\* NodeApi for Node::delete
delete(P, Ch, self, strategy) == delete_node(P, Ch, self, strategy)

\* NodeApi for Node::ancestors: nearest first
RECURSIVE AncestorsFrom(_, _, _)
AncestorsFrom(P, current, fuel) ==
    IF current = None \/ fuel = 0 THEN <<>>
    ELSE <<current>> \o AncestorsFrom(P, get_parent(P, current), fuel - 1)

\* ancestors that stops below the root node
ancestors_below_root(P, self) ==
    SelectSeq(AncestorsFrom(P, parent(P, self), MaxIds + 1), LAMBDA x : x # Root)

ancestors(P, self) == AncestorsFrom(P, parent(P, self), MaxIds + 1)

\* NodeApi for Node::depth
RECURSIVE DepthLoop(_, _, _, _)
DepthLoop(P, current, depth, fuel) ==
    IF current = None \/ current = Root \/ fuel = 0 THEN depth
    ELSE DepthLoop(P, get_parent(P, current), depth + 1, fuel - 1)

\* the loop of depth ends: it meets Root, or a node without parent
RECURSIVE DepthLoopEnds(_, _, _)
DepthLoopEnds(P, current, fuel) ==
    IF current = None \/ current = Root THEN TRUE
    ELSE IF fuel = 0 THEN FALSE
    ELSE DepthLoopEnds(P, get_parent(P, current), fuel - 1)

\* depth that counts from 0 below Root
depth_from_zero(P, self) ==
    IF self = Root THEN 0
    ELSE DepthLoop(P, get_parent(P, self), 0, MaxIds + 1)

depth(P, self) ==
    IF self = Root THEN 0
    ELSE DepthLoop(P, get_parent(P, self), 1, MaxIds + 1)

----------------------------------------------------------------------------
\* State machine: one action per NodeApi call.  A caller issues a call from
\* an idle position and then holds its result (last) together with the tree
\* as it was before the call; Forget drops them, after which the next call
\* can be issued.  The one pair of calls observed together is
\* move_before(b, e) directly followed by move_after(b, e).

NoCall == [op |-> "none", self |-> Root, arg |-> Root, index |-> None,
           strategy |-> "none", res |-> "Ok"]

NoRoundTrip == [active |-> FALSE, first |-> "Ok", P |-> [n \in Ids |-> None],
                Ch |-> [n \in Nodes |-> <<>>]]

\* no move_before / move_after of the second caller is in progress
NoMove == [pc |-> "idle", self |-> Root, other |-> Root, offset |-> 0,
           new_parent |-> None, sib_parent |-> None, cur_idx |-> None,
           res |-> "Ok", fresh |-> TRUE]

Init ==
    /\ mr = NoMove
    /\ parentOf = [n \in Ids |-> None]
    /\ children = [n \in Nodes |-> <<>>]
    /\ handles = {Root}
    /\ last = NoCall
    /\ pParent = [n \in Ids |-> None]
    /\ pChildren = [n \in Nodes |-> <<>>]
    /\ rt = NoRoundTrip

Idle == last.op = "none"

Call(o, s, a, i, st) ==
    [op |-> o, self |-> s, arg |-> a, index |-> i, strategy |-> st, res |-> "Ok"]

\* commit the outcome r of a call and remember the call and the tree before
\* it; calls that fall into a move of the second caller are not remembered
Apply(r, call) ==
    /\ parentOf' = r.P
    /\ children' = r.Ch
    /\ IF mr.pc = "idle"
       THEN /\ pParent' = parentOf
            /\ pChildren' = children
            /\ last' = [call EXCEPT !.res = r.res]
       ELSE /\ pParent' = r.P
            /\ pChildren' = r.Ch
            /\ last' = NoCall
    /\ UNCHANGED mr

\* create_child / create_child_at: a freshly generated identifier
CreateChild ==
    /\ Idle
    /\ \E self \in handles, id \in Ids \ handles, index \in OptIndexes :
        LET r == do_create_child(parentOf, children, self, NodeIdToString(id), index)
        IN  /\ Apply(r, Call("create_child", self, id, index, "none"))
            /\ handles' = IF r.res = "Ok" THEN handles \cup {id} ELSE handles
            /\ rt' = NoRoundTrip

\* create_child_with_id / create_child_with_id_at: a caller-chosen identifier
CreateChildWithId ==
    /\ Idle
    /\ \E self \in handles, idstr \in IdStrings, index \in OptIndexes :
        LET r == do_create_child(parentOf, children, self, idstr, index)
        IN  /\ Apply(r, Call("create_child_with_id", self, idstr, index, "none"))
            /\ handles' = IF r.res = "Ok" THEN handles \cup {NodeIdFrom(idstr)}
                          ELSE handles
            /\ rt' = NoRoundTrip

MoveTo ==
    /\ Idle
    /\ \E self \in handles, p \in handles, index \in OptIndexes :
        LET r == move_to(parentOf, children, self, p, index)
        IN  /\ Apply(r, Call("move_to", self, p, index, "none"))
            /\ rt' = NoRoundTrip
            /\ UNCHANGED handles

MoveBefore ==
    /\ Idle
    /\ \E self \in handles, other \in handles :
        LET r == move_before(parentOf, children, self, other)
        IN  /\ Apply(r, Call("move_before", self, other, None, "none"))
            /\ rt' = NoRoundTrip
            /\ UNCHANGED handles

\* issued from idle, or directly after move_before on the same two handles
MoveAfter ==
    \E self \in handles, other \in handles :
        LET r == move_after(parentOf, children, self, other)
            second == last.op = "move_before" /\ last.self = self /\ last.arg = other
        IN  /\ Idle \/ second
            /\ Apply(r, Call("move_after", self, other, None, "none"))
            /\ rt' = IF second
                     THEN [active |-> TRUE, first |-> last.res,
                           P |-> pParent, Ch |-> pChildren]
                     ELSE NoRoundTrip
            /\ UNCHANGED handles

Delete ==
    /\ Idle
    /\ \E self \in handles, strategy \in Strategies :
        LET r == delete(parentOf, children, self, strategy)
        IN  /\ Apply(r, Call("delete", self, Root, None, strategy))
            /\ rt' = NoRoundTrip
            /\ UNCHANGED handles

\* the caller drops the result it holds
Forget ==
    /\ ~Idle
    /\ last' = NoCall
    /\ pParent' = parentOf
    /\ pChildren' = children
    /\ rt' = NoRoundTrip
    /\ UNCHANGED <<parentOf, children, handles, mr>>

Next ==
    \/ CreateChild
    \/ CreateChildWithId
    \/ MoveTo
    \/ MoveBefore
    \/ MoveAfter
    \/ Delete
    \/ Forget

Spec == Init /\ [][Next]_vars

----------------------------------------------------------------------------
\* Two local callers of one tree.  The first issues whole calls as above.
\* The second runs Node::move_relative one access to the tree at a time:
\* node.rs takes no lock of its own, each of other.parent(), the parent()
\* and the children() inside other.siblings(), and update_node is a separate
\* access, and calls of the first caller can fall between them.

\* the call m has ended with result r; of the call only the moved node and
\* the parent read first are kept for the caller
Done(m, r, f) ==
    [NoMove EXCEPT !.pc = "done", !.self = m.self, !.new_parent = m.new_parent,
                   !.res = r, !.fresh = f]

\* lines 237-245: the two tests, then other.parent().unwrap()
MrCall ==
    /\ mr.pc = "idle"
    /\ Idle
    /\ \E self \in handles, other \in handles, offset \in {0, 1} :
        LET m == [NoMove EXCEPT !.self = self, !.other = other, !.offset = offset]
        IN  mr' = IF other = self THEN Done(m, "Cycle", TRUE)
                  ELSE IF other = Root THEN Done(m, "InvalidTarget", TRUE)
                  ELSE IF parent(parentOf, other) = None THEN Done(m, "Panic", TRUE)
                  ELSE [m EXCEPT !.pc = "siblings",
                                 !.new_parent = parent(parentOf, other)]
    /\ UNCHANGED <<parentOf, children, handles, last, pParent, pChildren, rt>>

\* line 246, other.siblings(): the parent() it starts with (lines 399-400)
MrSiblingsParent ==
    /\ mr.pc = "siblings"
    /\ mr' = [mr EXCEPT !.pc = "position", !.sib_parent = parent(parentOf, mr.other)]
    /\ UNCHANGED <<parentOf, children, handles, last, pParent, pChildren, rt>>

\* lines 246-250: parent.children(), or no siblings without a parent, then
\* position(..).unwrap()
MrPosition ==
    /\ mr.pc = "position"
    /\ LET sibs == IF mr.sib_parent # None
                   THEN children_of(children, mr.sib_parent) ELSE <<>>
           idx  == Position(sibs, mr.other)
       IN  mr' = IF idx = None THEN Done(mr, "Panic", TRUE)
                 ELSE [mr EXCEPT !.pc = "update", !.cur_idx = idx, !.sib_parent = None]
    /\ UNCHANGED <<parentOf, children, handles, last, pParent, pChildren, rt>>

\* lines 252-256: update_node with the parent and the index read before;
\* fresh records whether both are still those of the target
MrUpdate ==
    /\ mr.pc = "update"
    /\ LET r == update_node(parentOf, children, mr.self, mr.new_parent,
                            mr.cur_idx + mr.offset)
       IN  /\ parentOf' = r.P
           /\ children' = r.Ch
           /\ pParent' = r.P
           /\ pChildren' = r.Ch
           /\ mr' = Done(mr, r.res,
                         /\ parent(parentOf, mr.other) = mr.new_parent
                         /\ Position(siblings(parentOf, children, mr.other),
                                     mr.other) = mr.cur_idx)
    /\ UNCHANGED <<handles, last, rt>>

\* the second caller has its result
MrReturn ==
    /\ mr.pc = "done"
    /\ mr' = NoMove
    /\ UNCHANGED <<parentOf, children, handles, last, pParent, pChildren, rt>>

NextConc ==
    \/ CreateChild
    \/ CreateChildWithId
    \/ MoveTo
    \/ MoveBefore
    \/ MoveAfter
    \/ Delete
    \/ Forget
    \/ MrCall
    \/ MrSiblingsParent
    \/ MrPosition
    \/ MrUpdate
    \/ MrReturn

SpecConc == Init /\ [][NextConc]_vars

TypeOK ==
    /\ parentOf \in [Ids -> Nodes \cup {None}]
    /\ \A n \in Nodes : \A i \in 1..Len(children[n]) : children[n][i] \in Ids
    /\ handles \subseteq Nodes

----------------------------------------------------------------------------
\* Vocabulary of the properties

\* the last call left the tree as it found it
Unchanged == parentOf = pParent /\ children = pChildren

Moves == {"move_to", "move_before", "move_after"}

\* a node is visible when it has a parent entry or sits in a child sequence
Present(P, Ch, n) ==
    \/ n = Root
    \/ P[n] # None
    \/ \E p \in Nodes : n \in Elems(Ch[p])

\* p is n or lies in the subtree below n
InSubtree(P, n, p) == p = n \/ n \in AncestorSet(P, p)

\* C1: the child sequences and the parent mapping agree: every non-root
\* node of the tree occurs exactly once in the child sequence of its parent
\* and in no other child sequence, and Root occurs in no child sequence.
C1_ChildListsAgreeWithParents ==
    /\ \A n \in Ids : \A p \in Nodes :
          Count(children[p], n) = (IF parentOf[n] = p THEN 1 ELSE 0)
    /\ \A p \in Nodes : Root \notin Elems(children[p])

\* a node that has children was moved from one parent to another
C1_Witness ==
    /\ last.op \in Moves
    /\ last.res = "Ok"
    /\ pParent[last.self] # None
    /\ pParent[last.self] # parentOf[last.self]
    /\ children[last.self] # <<>>

\* C2: the tree is rooted and acyclic: every visible non-root node has a
\* parent, that parent is visible, the walk along parent links from the node
\* reaches Root, and the node is not among its own ancestors.
C2_RootedAcyclic ==
    /\ get_parent(parentOf, Root) = None
    /\ \A n \in Ids :
          Present(parentOf, children, n) =>
              /\ parentOf[n] # None
              /\ Present(parentOf, children, parentOf[n])
              /\ Root \in AncestorSet(parentOf, n)
              /\ n \notin AncestorSet(parentOf, n)

\* a chain of three nodes below Root after a successful move
C2_Witness ==
    /\ last.op \in Moves
    /\ last.res = "Ok"
    /\ \E n \in Ids : Cardinality(AncestorSet(parentOf, n)) = MaxIds

\* C3: moving a node under itself or under one of its descendants, with
\* move_to, or with move_before / move_after relative to a target whose
\* parent is the node or one of its descendants, fails with Cycle and leaves
\* the tree unchanged.
C3_MoveIntoOwnSubtreeIsCycle ==
    /\ ( /\ last.op = "move_to"
         /\ InTree(pParent, last.self)
         /\ InSubtree(pParent, last.self, last.arg) )
       => (last.res = "Cycle" /\ Unchanged)
    /\ ( /\ last.op \in {"move_before", "move_after"}
         /\ get_parent(pParent, last.arg) # None
         /\ InSubtree(pParent, last.self, get_parent(pParent, last.arg)) )
       => (last.res = "Cycle" /\ Unchanged)

\* a node was moved before or after one of its grandchildren
C3_Witness ==
    /\ last.op \in {"move_before", "move_after"}
    /\ last.self \in Ids
    /\ get_parent(pParent, last.arg) \in Ids
    /\ last.self \in AncestorSet(pParent, get_parent(pParent, last.arg))
    /\ last.res = "Cycle"

\* x comes before y in the sequence s
Before(s, x, y) ==
    /\ x \in Elems(s)
    /\ y \in Elems(s)
    /\ Position(s, x) < Position(s, y)

Creates == {"create_child", "create_child_with_id"}

\* C4: create_child_with_id / create_child_with_id_at with an identifier
\* that already names a node of the tree fails, and the existing node keeps
\* its parent and its position.
C4_DuplicateIdRejected ==
    ( /\ last.op = "create_child_with_id"
      /\ NodeIdFrom(last.arg) # Root
      /\ InTree(pParent, NodeIdFrom(last.arg)) )
    => ( /\ last.res \notin {"Ok", "Panic"}
         /\ parentOf[NodeIdFrom(last.arg)] = pParent[NodeIdFrom(last.arg)]
         /\ children = pChildren )

\* C5: after a successful create_child* on parent p producing n, p is the
\* parent of n, n occurs exactly once among the children of p, at the
\* requested index or last when none was given, and the children p had
\* before keep their relative order.
C5_CreatePlacesChild ==
    (last.op \in Creates /\ last.res = "Ok") =>
        LET n == NodeIdFrom(last.arg)
            p == last.self
        IN  /\ get_parent(parentOf, n) = p
            /\ Count(children[p], n) = 1
            /\ IF last.index # None
               THEN Position(children[p], n) = last.index
               ELSE children[p][Len(children[p])] = n
            /\ \A x, y \in Elems(pChildren[p]) :
                  Before(pChildren[p], x, y) => Before(children[p], x, y)

\* C6: after a successful move_to(n, p, Some(i)) n is the parent's child at
\* index i and p is the parent of n; with no index n is the last child of p;
\* also when n was a child of p before.  The move succeeds when n and p are
\* in the tree, p is not inside n's subtree and i does not exceed the number
\* of the other children of p.
C6_MoveToPlacesNode ==
    /\ (last.op = "move_to" /\ last.res = "Ok") =>
        LET n == last.self
            p == last.arg
        IN  /\ get_parent(parentOf, n) = p
            /\ IF last.index # None
               THEN /\ last.index < Len(children[p])
                    /\ children[p][last.index + 1] = n
               ELSE /\ children[p] # <<>>
                    /\ children[p][Len(children[p])] = n
    /\ ( /\ last.op = "move_to"
         /\ last.self \in Ids
         /\ InTree(pParent, last.self)
         /\ InTree(pParent, last.arg)
         /\ ~InSubtree(pParent, last.self, last.arg)
         /\ last.index # None => last.index <= Len(Remove(pChildren[last.arg], last.self)) )
       => last.res = "Ok"

\* a node was moved to another index under the parent it already had,
\* ahead of a sibling
C6_Witness ==
    /\ last.op = "move_to"
    /\ last.res = "Ok"
    /\ last.index # None
    /\ pParent[last.self] = last.arg
    /\ Position(pChildren[last.arg], last.self) # last.index
    /\ last.index + 1 < Len(children[last.arg])

\* C7: for distinct non-root nodes b and e of the tree, e not inside b's
\* subtree, move_before(b, e) succeeds and leaves b immediately before e
\* under e's parent, and move_after(b, e) succeeds and leaves b immediately
\* after e under e's parent, wherever b was before.
C7_MoveRelativeAdjacent ==
    ( /\ last.op \in {"move_before", "move_after"}
      /\ last.self \in Ids
      /\ last.arg \in Ids
      /\ last.self # last.arg
      /\ InTree(pParent, last.self)
      /\ InTree(pParent, last.arg)
      /\ ~InSubtree(pParent, last.self, last.arg) )
    => LET b == last.self
           e == last.arg
           par == pParent[e]
       IN  /\ last.res = "Ok"
           /\ parentOf[e] = par
           /\ parentOf[b] = par
           /\ b \in Elems(children[par])
           /\ e \in Elems(children[par])
           /\ Position(children[par], b) =
                  Position(children[par], e) + (IF last.op = "move_before" THEN 0 - 1 ELSE 1)

\* C8: move_before(b, e) directly followed by move_after(b, e), b being the
\* sibling immediately after e before the two calls: both calls succeed and
\* the child sequence of e's parent is afterwards what it was before them.
C8_BeforeThenAfterRestores ==
    ( /\ rt.active
      /\ last.self \in Ids
      /\ last.arg \in Ids
      /\ rt.P[last.arg] # None
      /\ rt.P[last.self] = rt.P[last.arg]
      /\ Position(rt.Ch[rt.P[last.arg]], last.self) =
             Position(rt.Ch[rt.P[last.arg]], last.arg) + 1 )
    => ( /\ rt.first = "Ok"
         /\ last.res = "Ok"
         /\ children[rt.P[last.arg]] = rt.Ch[rt.P[last.arg]] )

\* C9: delete with Promote of a non-root node n of the tree succeeds;
\* afterwards n is absent, its former children are children of its former
\* parent, in their order, after all the children that parent already had,
\* and the subtrees below the promoted children are unchanged.
C9_DeletePromote ==
    ( /\ last.op = "delete"
      /\ last.strategy = "Promote"
      /\ last.self # Root
      /\ InTree(pParent, last.self) )
    => LET n == last.self
           par == pParent[n]
           below == DescendantSet(pParent, n)
       IN  /\ last.res = "Ok"
           /\ ~Present(parentOf, children, n)
           /\ children[n] = <<>>
           /\ \A c \in Elems(pChildren[n]) : parentOf[c] = par
           /\ children[par] = Remove(pChildren[par], n) \o pChildren[n]
           /\ \A x \in below : children[x] = pChildren[x]
           /\ \A x \in below \ Elems(pChildren[n]) : parentOf[x] = pParent[x]

\* a node with a child was promoted away while a sibling stood after it
C9_Witness ==
    /\ last.op = "delete"
    /\ last.strategy = "Promote"
    /\ last.res = "Ok"
    /\ pChildren[last.self] # <<>>
    /\ \E s \in Ids : Before(pChildren[pParent[last.self]], last.self, s)

\* C10: delete with Cascade of a non-root node n of the tree succeeds;
\* afterwards n and all its former descendants are absent from the parent
\* mapping and from every child sequence, no node has a deleted node as its
\* parent, and the nodes outside the subtree keep their parent and their
\* sibling order.
C10_DeleteCascade ==
    ( /\ last.op = "delete"
      /\ last.strategy = "Cascade"
      /\ last.self # Root
      /\ InTree(pParent, last.self) )
    => LET n == last.self
           gone == {n} \cup DescendantSet(pParent, n)
       IN  /\ last.res = "Ok"
           /\ \A g \in gone : ~Present(parentOf, children, g)
           /\ \A g \in gone : children[g] = <<>>
           /\ \A x \in Ids : parentOf[x] \notin gone
           /\ \A x \in Ids \ gone : parentOf[x] = pParent[x]
           /\ \A p \in Nodes \ gone : children[p] = Remove(pChildren[p], n)

\* a node with a child was cascaded away while another node stayed
C10_Witness ==
    /\ last.op = "delete"
    /\ last.strategy = "Cascade"
    /\ last.res = "Ok"
    /\ pChildren[last.self] # <<>>
    /\ \E s \in Ids : InTree(parentOf, s)

\* the handle names an identity that is no longer in the tree
Stale(P, id) == id \in Ids /\ ~InTree(P, id)

Errors == {"InvalidId", "Cycle", "InvalidTarget", "NotFound", "IndexOutOfRange"}

\* C11: delete, move_to, move_before and move_after issued on a Root handle
\* return an error and leave the tree unchanged, whatever the destination or
\* target; Root is present and has no parent in every state.
C11_RootImmovable ==
    /\ get_parent(parentOf, Root) = None
    /\ \A p \in Nodes : Root \notin Elems(children[p])
    /\ (last.self = Root /\ last.op \in Moves \cup {"delete"})
       => (last.res \in Errors /\ Unchanged)

\* C12: a structural call that returns an error leaves the parent mapping
\* and every child sequence as they were before the call.
C12_ErrorsLeaveTreeUnchanged ==
    (last.op # "none" /\ last.res # "Ok") => Unchanged

\* a move of a node of the tree failed on its index
C12_Witness ==
    /\ last.op = "move_to"
    /\ last.res = "IndexOutOfRange"
    /\ InTree(pParent, last.self)
    /\ last.self \in Ids

\* C13: a call through a handle whose node has been deleted (as the parent
\* of a creation, as the moved node, the destination or the target of a
\* move, or as the node to delete) returns a typed error, NotFound unless an
\* earlier test of the arguments gives another one, and changes nothing: it
\* neither succeeds nor aborts.
C13_StaleHandlesFail ==
    ( \/ last.op \in Creates /\ Stale(pParent, last.self)
      \/ last.op \in Moves /\ (Stale(pParent, last.self) \/ Stale(pParent, last.arg))
      \/ last.op = "delete" /\ Stale(pParent, last.self) )
    => (last.res \in Errors /\ Unchanged)

\* C14: move_before(n, t) and move_after(n, t) fail with Cycle when n and t
\* are the same node and with InvalidTarget when t is Root (and n is not),
\* and change nothing.
C14_MoveRelativeSelfAndRoot ==
    (last.op \in {"move_before", "move_after"}) =>
        /\ last.self = last.arg => (last.res = "Cycle" /\ Unchanged)
        /\ (last.arg = Root /\ last.self # Root)
           => (last.res = "InvalidTarget" /\ Unchanged)

\* a node of the tree that has a sibling was moved relative to itself
C14_Witness ==
    /\ last.op \in {"move_before", "move_after"}
    /\ last.self = last.arg
    /\ last.self \in Ids
    /\ InTree(pParent, last.self)
    /\ Len(pChildren[pParent[last.self]]) > 1
    /\ last.res = "Cycle"

\* C15: creating a child with the reserved identifier "<ROOT>", on any
\* parent, fails with InvalidId and leaves the tree unchanged.
C15_RootLiteralRejected ==
    (last.op = "create_child_with_id" /\ last.arg = RootLiteral)
    => (last.res = "InvalidId" /\ Unchanged)

\* "<ROOT>" was offered as the identifier of a child of a non-root node
C15_Witness ==
    /\ last.op = "create_child_with_id"
    /\ last.arg = RootLiteral
    /\ last.self \in Ids
    /\ InTree(pParent, last.self)
    /\ last.res = "InvalidId"

\* C16: depth(Root) is 0, and for every non-root node n of the tree
\* depth(n) is 1 + depth(parent(n)); the loop of depth ends for every node.
C16_DepthRecurrence ==
    /\ depth(parentOf, Root) = 0
    /\ \A n \in Ids :
          InTree(parentOf, n) =>
              /\ depth(parentOf, n) = 1 + depth(parentOf, parent(parentOf, n))
              /\ DepthLoopEnds(parentOf, get_parent(parentOf, n), MaxIds)

\* a deletion with Promote has lifted a node from depth 3 to depth 2
C16_Witness ==
    /\ last.op = "delete"
    /\ last.res = "Ok"
    /\ \E n \in Ids : /\ InTree(parentOf, n)
                      /\ depth(pParent, n) = 3
                      /\ depth(parentOf, n) = 2

\* C17: for every non-root node n of the tree ancestors(n) starts with the
\* parent of n, every later element is the parent of the one before it, the
\* last element is Root and the number of elements is depth(n);
\* ancestors(Root) is empty.
C17_AncestorsChain ==
    /\ ancestors(parentOf, Root) = <<>>
    /\ \A n \in Ids :
          InTree(parentOf, n) =>
              LET a == ancestors(parentOf, n)
              IN  /\ Len(a) >= 1
                  /\ a[1] = parent(parentOf, n)
                  /\ \A i \in 1..(Len(a) - 1) : a[i + 1] = parent(parentOf, a[i])
                  /\ a[Len(a)] = Root
                  /\ Len(a) = depth(parentOf, n)

\* a move has given a node a different chain of at least two ancestors
C17_Witness ==
    /\ last.op = "move_to"
    /\ last.res = "Ok"
    /\ InTree(pParent, last.self)
    /\ Len(ancestors(parentOf, last.self)) >= 2
    /\ ancestors(parentOf, last.self) # ancestors(pParent, last.self)

\* the node inserted and the destination of the last call, when that call is
\* a creation or a move_to
Inserted == IF last.op = "move_to" THEN last.self ELSE NodeIdFrom(last.arg)
Destination == IF last.op = "move_to" THEN last.arg ELSE last.self

\* the last call is an insertion at an index that nothing but the index can
\* make fail: the destination is in the tree and is not inside the subtree of
\* the node inserted
IndexedInsertion ==
    /\ last.op \in Creates \cup {"move_to"}
    /\ last.index # None
    /\ Inserted # Root
    /\ InTree(pParent, Destination)
    /\ Inserted \notin WalkUp(pParent, Destination, MaxIds + 1)

\* the outcome of an indexed insertion against the limit lim: beyond it
\* IndexOutOfRange, up to it Ok, and at it the node ends last
IndexDecidedBy(lim) ==
    /\ last.index > lim => last.res = "IndexOutOfRange"
    /\ last.index <= lim => last.res = "Ok"
    /\ last.index = lim =>
          /\ children[Destination] # <<>>
          /\ children[Destination][Len(children[Destination])] = Inserted

C20_MoveFrame ==
    (last.op \in Moves /\ last.res = "Ok") =>
        LET n == last.self
        IN  /\ \A x \in Ids \ {n} : parentOf[x] = pParent[x]
            /\ children[n] = pChildren[n]
            /\ \A p \in Nodes : Remove(children[p], n) = Remove(pChildren[p], n)

\* a node that has a child changed its place among its siblings
C20_Witness ==
    /\ last.op \in {"move_before", "move_after"}
    /\ last.res = "Ok"
    /\ pChildren[last.self] # <<>>
    /\ pParent[last.self] # None
    /\ children[parentOf[last.self]] # pChildren[parentOf[last.self]]
    /\ Len(pChildren[pParent[last.self]]) > 1

\* C19: move_before / move_after are atomic with respect to the other
\* caller: a call that found its target in the tree ends with a typed result
\* (it does not abort on a missing parent or a missing sibling position),
\* the parent and the index it read are those of the target when the node
\* is inserted, and every state satisfies the tree invariants.
C19_MoveRelativeAtomic ==
    /\ C1_ChildListsAgreeWithParents
    /\ C2_RootedAcyclic
    /\ (mr.pc = "done" /\ mr.self \in Ids /\ mr.new_parent # None)
       => (mr.res # "Panic" /\ (mr.res = "Ok" => mr.fresh))

====
